---- MODULE Spec2Model ----
(***************************************************************************)
(* Model of the VibraFrame face-detection service, python_api/main.py.     *)
(*                                                                         *)
(* The service has one interesting operation, POST /detect-face.  A        *)
(* request carries an upload (declared content type + body).  The handler  *)
(* is modelled statement by statement, one action per statement group, so  *)
(* that requests served concurrently by the host framework interleave.     *)
(*                                                                         *)
(* External libraries are modelled by what they return for a body:         *)
(*   - PIL:       Image.open / Image.convert / numpy.array                 *)
(*   - MediaPipe: FaceDetection(...) context manager and .process()        *)
(* A body is described by the results those libraries produce on it.       *)
(*                                                                         *)
(* Python's None is <<>> and a present value v is <<v>>.  Strings that the *)
(* code inspects character by character (the content type) are sequences   *)
(* of one-character strings.  Floats are binary64 values, bit by bit.      *)
(***************************************************************************)
EXTENDS Integers, Sequences, FiniteSets, TLC

\* ------------------------------------------------------------------------
\* Bounds of the model
\* ------------------------------------------------------------------------
\* number of request slots that may be in flight together
NumReq == 2
\* box coordinates range over k/Den, k \in 0..Den
Den == 1
\* the detector returns at most MaxDet detections
MaxDet == 2
\* requests the clients send in all, under concurrent load
MaxArrivals == 3

Req == 1..NumReq

\* ------------------------------------------------------------------------
\* Option values
\* ------------------------------------------------------------------------
None == <<>>
Some(v) == <<v>>
IsNone(o) == o = <<>>
Val(o) == o[1]

\* ------------------------------------------------------------------------
\* Python floats: IEEE-754 binary64, finite, non-negative, normal range.
\* A float is [exp, sig]: the value is the 53-bit significand b1.b2...b53
\* (binary) times 2^exp.  sig holds the significand as <<b1, g1, g2, g3, g4>>,
\* the leading bit and the 52 bits after it in four groups of 13, each group
\* as a number.  b1 = 1 except for zero, whose sig is all 0.
\* ------------------------------------------------------------------------
Precision == 53
GroupBits == 13

Zeros(n) == [i \in 1..n |-> 0]

IsZero(a) == a.sig[1] = 0

\* the binary digits of q, width of them, most significant first
BitsOf(q, width) == [i \in 1..width |-> (q \div 2^(width - i)) % 2]

\* the number whose binary digits are bits
ToInt(bits) ==
    LET val[i \in 0..Len(bits)] == IF i = 0 THEN 0 ELSE 2 * val[i - 1] + bits[i]
    IN val[Len(bits)]

\* the significand as a string of Precision bits
Unpack(sig) ==
    <<sig[1]>> \o BitsOf(sig[2], GroupBits) \o BitsOf(sig[3], GroupBits)
               \o BitsOf(sig[4], GroupBits) \o BitsOf(sig[5], GroupBits)

\* a string of Precision bits as a significand
Pack(bits) ==
    <<bits[1],
      ToInt(SubSeq(bits, 2, 1 + GroupBits)),
      ToInt(SubSeq(bits, 2 + GroupBits, 1 + 2 * GroupBits)),
      ToInt(SubSeq(bits, 2 + 2 * GroupBits, 1 + 3 * GroupBits)),
      ToInt(SubSeq(bits, 2 + 3 * GroupBits, 1 + 4 * GroupBits))>>

\* x + y on bit strings of equal length: <<carry out, bits>>.  The carry
\* into position i comes from the nearest lower position where both bits
\* are 1, when every position between passes a carry on
AddBits(x, y) ==
    LET n == Len(x)
        carry(i) == \E j \in (i + 1)..n :
                        /\ x[j] + y[j] = 2
                        /\ \A m \in (i + 1)..(j - 1) : x[m] + y[m] = 1
        c(i) == IF carry(i) THEN 1 ELSE 0
    IN <<c(0), [i \in 1..n |-> (x[i] + y[i] + c(i)) % 2]>>

\* the float nearest to bits (leading bit 1, at least Precision bits) * 2^e,
\* ties to the even significand
RoundBits(e, bits) ==
    LET n == Len(bits)
        head == SubSeq(bits, 1, Precision)
        guard == IF n > Precision THEN bits[Precision + 1] ELSE 0
        sticky == \E i \in (Precision + 2)..n : bits[i] = 1
        up == guard = 1 /\ (sticky \/ head[Precision] = 1)
        inc == AddBits(head, [i \in 1..Precision |-> IF i = Precision THEN 1 ELSE 0])
    IN IF ~up THEN [exp |-> e, sig |-> Pack(head)]
       ELSE IF inc[1] = 1 THEN [exp |-> e + 1, sig |-> Pack(<<1>> \o SubSeq(inc[2], 1, Precision - 1))]
       ELSE [exp |-> e, sig |-> Pack(inc[2])]

\* a + b
FloatAdd(a, b) ==
    IF IsZero(a) THEN b
    ELSE IF IsZero(b) THEN a
    ELSE LET hi == IF a.exp >= b.exp THEN a ELSE b
             lo == IF a.exp >= b.exp THEN b ELSE a
             k == hi.exp - lo.exp
         IN IF k > Precision + 1 THEN hi
            ELSE LET s == AddBits(Unpack(hi.sig) \o Zeros(k), Zeros(k) \o Unpack(lo.sig))
                 IN IF s[1] = 1 THEN RoundBits(hi.exp + 1, <<1>> \o s[2])
                    ELSE RoundBits(hi.exp, s[2])

\* a / 2
FloatHalf(a) == IF IsZero(a) THEN a ELSE [a EXCEPT !.exp = @ - 1]

\* x <= y on strings of equal length, most significant place first
LexLe(x, y) ==
    \/ x = y
    \/ \E i \in 1..Len(x) : x[i] < y[i] /\ \A j \in 1..(i - 1) : x[j] = y[j]

\* a <= b
FloatLe(a, b) ==
    IF IsZero(a) THEN TRUE
    ELSE IF IsZero(b) THEN FALSE
    ELSE IF a.exp # b.exp THEN a.exp < b.exp
    ELSE LexLe(a.sig, b.sig)

\* <<n', d', e>> with d' <= n' < 2d' and n/d = n'/d' * 2^e
RECURSIVE Scale(_, _, _)
Scale(n, d, e) ==
    IF n >= 2 * d THEN Scale(n, 2 * d, e + 1)
    ELSE IF n < d THEN Scale(2 * n, d, e - 1)
    ELSE <<n, d, e>>

\* the next width binary digits of rem/d (rem < d): <<digits, remainder>>
Digits(rem, d, width) ==
    <<BitsOf((rem * 2^width) \div d, width), (rem * 2^width) % d>>

\* the float written n/d in decimal, e.g. 0.2 is FromRatio(1, 5): the float
\* nearest to the fraction.  After the leading 1 come four groups of
\* digits, a guard digit, and a digit for what is left
\* (n and d small enough that d * 2^GroupBits stays a 32-bit number)
FromRatio(n, d) ==
    IF n = 0 THEN [exp |-> 0, sig |-> <<0, 0, 0, 0, 0>>]
    ELSE LET s == Scale(n, d, 0)
             g1 == Digits(s[1] - s[2], s[2], GroupBits)
             g2 == Digits(g1[2], s[2], GroupBits)
             g3 == Digits(g2[2], s[2], GroupBits)
             g4 == Digits(g3[2], s[2], GroupBits)
             gd == Digits(g4[2], s[2], 1)
         IN RoundBits(s[3], <<1>> \o g1[1] \o g2[1] \o g3[1] \o g4[1] \o gd[1]
                                  \o <<IF gd[2] > 0 THEN 1 ELSE 0>>)

Zero == FromRatio(0, 1)
One == FromRatio(1, 1)

\* ------------------------------------------------------------------------
\* Content types (str or None), character by character
\* ------------------------------------------------------------------------
ImagePrefix == <<"i", "m", "a", "g", "e", "/">>

\* str.startswith
StartsWith(s, p) == Len(s) >= Len(p) /\ SubSeq(s, 1, Len(p)) = p

CtPng == <<"i", "m", "a", "g", "e", "/", "p", "n", "g">>
CtBareSlash == <<"i", "m", "a", "g", "e", "/">>
CtNoSlash == <<"i", "m", "a", "g", "e">>
CtUpper == <<"I", "m", "a", "g", "e", "/", "p", "n", "g">>
CtText == <<"t", "e", "x", "t", "/", "p", "l", "a", "i", "n">>
CtEmbedded == <<"x", "/", "i", "m", "a", "g", "e", "/">>
CtEmpty == <<>>

\* UploadFile.content_type: None when the part has no Content-Type header
ContentTypes ==
    {None} \cup {Some(s) : s \in {CtPng, CtBareSlash, CtNoSlash, CtUpper, CtText, CtEmbedded, CtEmpty}}

SmallContentTypes == {Some(CtPng)}

\* ------------------------------------------------------------------------
\* Bounding boxes and what the detector returns
\* ------------------------------------------------------------------------
Coord == {FromRatio(k, Den) : k \in 0..Den}

GridBoxes == [xmin : Coord, ymin : Coord, width : Coord, height : Coord]

\* xmin=0.2, ymin=0.3, width=0.1, height=0.2
ExampleBox ==
    [xmin |-> FromRatio(1, 5), ymin |-> FromRatio(3, 10), width |-> FromRatio(1, 10), height |-> FromRatio(1, 5)]

\* xmin=0.7, ymin=0.1, width=0.2, height=0.4: both sums round
RoundingBox ==
    [xmin |-> FromRatio(7, 10), ymin |-> FromRatio(1, 10), width |-> FromRatio(1, 5), height |-> FromRatio(2, 5)]

FullBox == [xmin |-> Zero, ymin |-> Zero, width |-> One, height |-> One]

Boxes == GridBoxes \cup {ExampleBox, RoundingBox}

\* further detections after the first
OtherBoxes == {ExampleBox, FullBox}

RECURSIVE SeqsUpTo(_, _)
SeqsUpTo(S, n) ==
    IF n = 0 THEN {<<>>}
    ELSE LET shorter == SeqsUpTo(S, n - 1)
         IN shorter \cup {Append(s, x) : s \in {t \in shorter : Len(t) = n - 1}, x \in S}

DetectionLists ==
    {<<>>} \cup {<<b>> \o t : b \in Boxes, t \in SeqsUpTo(OtherBoxes, MaxDet - 1)}

SmallDetectionLists ==
    {<<>>, <<FullBox>>}

\* ------------------------------------------------------------------------
\* Exceptions
\* ------------------------------------------------------------------------
Exc(t, m) == [type |-> t, msg |-> m]

\* str(e)
Str(e) == e.msg

UnidentifiedImageError == Exc("UnidentifiedImageError", "cannot identify image file")
TruncatedError == Exc("OSError", "image file is truncated")
ConvertError == Exc("ValueError", "conversion not supported")
UnpackError == Exc("ValueError", "not enough values to unpack (expected 3, got 2)")
ChannelError == Exc("ValueError", "Input image must contain three channel rgb data.")
AttributeError == Exc("AttributeError", "'NoneType' object has no attribute 'startswith'")

\* failures of the detection graph; an exception may carry no message
DetectorFaults == {Exc("RuntimeError", "graph failed"), Exc("RuntimeError", "")}

\* ------------------------------------------------------------------------
\* Bodies
\* ------------------------------------------------------------------------
Modes == {"RGB", "RGBA", "L", "I;16"}

\* what the detector does with the pixels: a fault or a list of detections
Scenes(lists) ==
    [fault : {None}, dets : lists] \cup [fault : {Some(f) : f \in DetectorFaults}, dets : {<<>>}]

\* fmt "bad": not an image; "truncated": header parses, pixel data does not
BodiesOver(modes, lists) ==
    [fmt : {"bad"}, mode : {"RGB"}, size : {<<4, 3>>}, scene : {[fault |-> None, dets |-> <<>>]}]
        \cup [fmt : {"truncated"}, mode : modes, size : {<<4, 3>>}, scene : {[fault |-> None, dets |-> <<>>]}]
        \cup [fmt : {"ok"}, mode : modes, size : {<<4, 3>>}, scene : Scenes(lists)]

Bodies == BodiesOver(Modes, DetectionLists)

\* under concurrent load: one body for each way out of the with block
SmallBodies ==
    {b \in BodiesOver({"RGB", "L"}, SmallDetectionLists) :
        /\ b.fmt = "ok"
        /\ b.scene.fault \in {None, Some(Exc("RuntimeError", "graph failed"))}
        /\ b.mode = "L" <=> b.scene.dets # <<>>
        /\ ~IsNone(b.scene.fault) => b.mode = "RGB"}

Uploads == [content_type : ContentTypes, body : Bodies]

SmallUploads == [content_type : SmallContentTypes, body : SmallBodies]

\* placeholder held by a request slot on which no request arrives
NoUpload ==
    [content_type |-> None,
     body |-> [fmt |-> "bad", mode |-> "RGB", size |-> <<4, 3>>, scene |-> [fault |-> None, dets |-> <<>>]]]

\* ------------------------------------------------------------------------
\* PIL and numpy
\* ------------------------------------------------------------------------
\* number of bands of a PIL mode
Bands(mode) ==
    CASE mode = "RGB" -> 3
      [] mode = "RGBA" -> 4
      [] OTHER -> 1

\* Image.open(io.BytesIO(contents)): lazy, reads the header only
ImageOpen(body) ==
    IF body.fmt = "bad"
    THEN [ok |-> FALSE, exc |-> UnidentifiedImageError]
    ELSE [ok |-> TRUE, image |-> body]

\* Image.convert("RGB"): loads the pixel data, then converts; whether an
\* I;16 image converts depends on the installed Pillow (can16)
ImageConvert(im, can16) ==
    IF im.fmt = "truncated"
    THEN [ok |-> FALSE, exc |-> TruncatedError]
    ELSE IF im.mode = "I;16" /\ ~can16
    THEN [ok |-> FALSE, exc |-> ConvertError]
    ELSE [ok |-> TRUE, image |-> [im EXCEPT !.mode = "RGB"]]

\* np.array(image): loads the pixel data; shape is (h, w) or (h, w, bands)
NpArray(im) ==
    IF im.fmt = "truncated"
    THEN [ok |-> FALSE, exc |-> TruncatedError]
    ELSE [ok |-> TRUE,
          array |-> [shape |-> IF Bands(im.mode) = 1
                               THEN <<im.size[2], im.size[1]>>
                               ELSE <<im.size[2], im.size[1], Bands(im.mode)>>,
                     scene |-> im.scene]]

\* ------------------------------------------------------------------------
\* MediaPipe
\* ------------------------------------------------------------------------
\* FaceDetection.process(img_np)
FaceDetectionProcess(arr) ==
    IF Len(arr.shape) # 3 \/ arr.shape[Len(arr.shape)] # 3
    THEN [ok |-> FALSE, exc |-> ChannelError]
    ELSE IF ~IsNone(arr.scene.fault)
    THEN [ok |-> FALSE, exc |-> Val(arr.scene.fault)]
    ELSE [ok |-> TRUE, detections |-> arr.scene.dets]

\* ------------------------------------------------------------------------
\* Responses
\* ------------------------------------------------------------------------
\* variant: the rejection is sent as 415 Unsupported Media Type
BadRequestAs415 == [status |-> 415, body |-> [detail |-> "File must be an image"]]

\* raise HTTPException(status_code=400, detail="File must be an image")
BadRequest == [status |-> 400, body |-> [detail |-> "File must be an image"]]

\* an exception that leaves the handler: the framework answers 500
ServerError == [status |-> 500, body |-> [text |-> "Internal Server Error"]]

\* variant: the not-found answer carries an empty face entry
NotFoundWithFace == [status |-> 200, body |-> [ok |-> TRUE, found |-> FALSE, face |-> None]]

\* return {"ok": True, "found": False}
NotFoundResponse == [status |-> 200, body |-> [ok |-> TRUE, found |-> FALSE]]

\* variant: results.detections[-1]
LastDetection(dets) == dets[Len(dets)]

\* results.detections[0]
FirstDetection(dets) == dets[1]

\* the face dictionary built from the chosen bounding box
FaceOf(bbox) ==
    [x |-> FloatAdd(bbox.xmin, FloatHalf(bbox.width)),
     y |-> FloatAdd(bbox.ymin, FloatHalf(bbox.height)),
     w |-> bbox.width,
     h |-> bbox.height]

\* return {"ok": True, "found": True, "face": {...}}
FoundResponse(dets) ==
    [status |-> 200, body |-> [ok |-> TRUE, found |-> TRUE, face |-> FaceOf(FirstDetection(dets))]]

\* return {"ok": False, "error": str(e)}
ErrorResponse(e) == [status |-> 200, body |-> [ok |-> FALSE, error |-> Str(e)]]

\* print(f"Error processing image: {e}")
ErrorLine(e) == <<"Error processing image: ", Str(e)>>

\* variant: only single-band images are converted
NeedsConvertGrayOnly(mode) == Bands(mode) = 1

\* image.mode != "RGB"
NeedsConvert(mode) == mode # "RGB"

\* variant: file.content_type.startswith("image")
IsImageTypeNoSlash(s) == StartsWith(s, <<"i", "m", "a", "g", "e">>)

\* file.content_type.startswith("image/")
IsImageType(s) == StartsWith(s, ImagePrefix)

\* ------------------------------------------------------------------------
\* State
\* ------------------------------------------------------------------------
VARIABLES
    pc,              \* position of each request slot in detect_face
    file,            \* the upload of the request in each slot
    rid,             \* the number of the request in each slot
    contents,        \* bytes read from the upload
    image,           \* the PIL image
    img_np,          \* the numpy array
    face_detection,  \* id of the FaceDetection instance the request opened
    results,         \* detections returned by process()
    exc,             \* the exception being handled
    resp,            \* the HTTP response
    nextId,          \* ids handed to FaceDetection instances so far
    live,            \* instances opened and not yet closed
    calls,           \* history: process() invocations
    trace,           \* history: statements each request has executed
    served,          \* history: requests answered, with their responses
    log,             \* lines printed
    arrived,         \* requests received so far
    load,            \* "single": one request, any upload; "concurrent"
    converts16       \* the installed Pillow converts I;16 to RGB

locals == <<contents, image, img_np, results, exc>>
env == <<load, converts16>>
vars == <<pc, file, rid, contents, image, img_np, face_detection, results, exc, resp,
          nextId, live, calls, trace, served, log, arrived, load, converts16>>

\* uploads the clients may send, and how many requests they send
Pool == IF load = "single" THEN Uploads ELSE SmallUploads
Limit == IF load = "single" THEN 1 ELSE MaxArrivals

InitServer ==
    /\ pc = [r \in Req |-> "idle"]
    /\ file = [r \in Req |-> NoUpload]
    /\ rid = [r \in Req |-> 0]
    /\ contents = [r \in Req |-> None]
    /\ image = [r \in Req |-> None]
    /\ img_np = [r \in Req |-> None]
    /\ face_detection = [r \in Req |-> None]
    /\ results = [r \in Req |-> None]
    /\ exc = [r \in Req |-> None]
    /\ resp = [r \in Req |-> None]
    /\ nextId = 1
    /\ live = {}
    /\ calls = {}
    /\ trace = [r \in Req |-> {}]
    /\ served = {}
    /\ log = <<>>
    /\ arrived = 0
    /\ converts16 \in BOOLEAN

\* one request, any upload
Init == InitServer /\ load = "single"

\* several requests, served concurrently
InitConc == InitServer /\ load = "concurrent"

Goto(r, l) == pc' = [pc EXCEPT ![r] = l]
Did(r, s) == trace' = [trace EXCEPT ![r] = @ \cup {s}]
Raise(r, e) == exc' = [exc EXCEPT ![r] = Some(e)] /\ Goto(r, "except")
Respond(r, rsp) == resp' = [resp EXCEPT ![r] = Some(rsp)] /\ Goto(r, "done")
\* FaceDetection.__exit__: close the instance the request holds
Release(r) == live' = live \ {Val(face_detection[r])}

\* the framework routes a POST /detect-face request to the handler; slots
\* are interchangeable, the request takes the first idle one
Arrive(r) ==
    /\ pc[r] = "idle"
    /\ \A q \in Req : q < r => pc[q] # "idle"
    /\ arrived < Limit
    /\ \E u \in Pool : file' = [file EXCEPT ![r] = u]
    /\ arrived' = arrived + 1
    /\ rid' = [rid EXCEPT ![r] = arrived + 1]
    /\ Goto(r, "check")
    /\ UNCHANGED <<locals, face_detection, resp, nextId, live, calls, trace, served, log, env>>

\* line 27-28
CheckContentType(r) ==
    /\ pc[r] = "check"
    /\ LET ct == file[r].content_type IN
        IF IsNone(ct) THEN Respond(r, ServerError)
        ELSE IF ~IsImageType(Val(ct)) THEN Respond(r, BadRequest)
        ELSE Goto(r, "read") /\ UNCHANGED resp
    /\ UNCHANGED <<file, rid, locals, face_detection, nextId, live, calls, trace, served, log, arrived, env>>

\* line 32
ReadContents(r) ==
    /\ pc[r] = "read"
    /\ contents' = [contents EXCEPT ![r] = Some(file[r].body)]
    /\ Did(r, "read")
    /\ Goto(r, "open")
    /\ UNCHANGED <<file, rid, image, img_np, results, exc, face_detection, resp, nextId, live,
                   calls, served, log, arrived, env>>

\* variant: Image.open is called before the try block
OpenImageOutsideTry(r) ==
    /\ pc[r] = "open"
    /\ Did(r, "open")
    /\ LET o == ImageOpen(Val(contents[r])) IN
        IF o.ok THEN image' = [image EXCEPT ![r] = Some(o.image)] /\ Goto(r, "mode") /\ UNCHANGED resp
        ELSE Respond(r, ServerError) /\ UNCHANGED image
    /\ UNCHANGED <<file, rid, contents, img_np, results, exc, face_detection, nextId, live,
                   calls, served, log, arrived, env>>

\* line 33
OpenImage(r) ==
    /\ pc[r] = "open"
    /\ Did(r, "open")
    /\ LET o == ImageOpen(Val(contents[r])) IN
        IF o.ok THEN image' = [image EXCEPT ![r] = Some(o.image)] /\ Goto(r, "mode") /\ UNCHANGED exc
        ELSE Raise(r, o.exc) /\ UNCHANGED image
    /\ UNCHANGED <<file, rid, contents, img_np, results, face_detection, resp, nextId, live,
                   calls, served, log, arrived, env>>

\* line 36-37
ConvertMode(r) ==
    /\ pc[r] = "mode"
    /\ IF NeedsConvert(Val(image[r]).mode)
       THEN LET o == ImageConvert(Val(image[r]), converts16) IN
            /\ Did(r, "convert")
            /\ IF o.ok THEN image' = [image EXCEPT ![r] = Some(o.image)] /\ Goto(r, "array") /\ UNCHANGED exc
               ELSE Raise(r, o.exc) /\ UNCHANGED image
       ELSE Goto(r, "array") /\ UNCHANGED <<image, exc, trace>>
    /\ UNCHANGED <<file, rid, contents, img_np, results, face_detection, resp, nextId, live,
                   calls, served, log, arrived, env>>

\* line 39-40
ToArray(r) ==
    /\ pc[r] = "array"
    /\ Did(r, "array")
    /\ LET o == NpArray(Val(image[r])) IN
        IF ~o.ok THEN Raise(r, o.exc) /\ UNCHANGED img_np
        ELSE /\ img_np' = [img_np EXCEPT ![r] = Some(o.array)]
             /\ IF Len(o.array.shape) # 3 THEN Raise(r, UnpackError)
                ELSE Goto(r, "acquire") /\ UNCHANGED exc
    /\ UNCHANGED <<file, rid, contents, image, results, face_detection, resp, nextId, live,
                   calls, served, log, arrived, env>>

\* variant: one module-level FaceDetection instance serves every request
AcquirePooled(r) ==
    /\ pc[r] = "acquire"
    /\ face_detection' = [face_detection EXCEPT ![r] = Some(1)]
    /\ nextId' = 2
    /\ live' = live \cup {1}
    /\ Did(r, "acquire")
    /\ Goto(r, "process")
    /\ UNCHANGED <<file, rid, locals, resp, calls, served, log, arrived, env>>

\* line 43-46: a new FaceDetection instance, entered as a context manager
Acquire(r) ==
    /\ pc[r] = "acquire"
    /\ face_detection' = [face_detection EXCEPT ![r] = Some(nextId)]
    /\ nextId' = nextId + 1
    /\ live' = live \cup {nextId}
    /\ Did(r, "acquire")
    /\ Goto(r, "process")
    /\ UNCHANGED <<file, rid, locals, resp, calls, served, log, arrived, env>>

\* variant: the frame handed to process() lives in a buffer shared by the
\* requests, and holds the frame of the lowest slot that has one
SharedFrame ==
    LET q == CHOOSE q \in Req : ~IsNone(img_np[q]) /\ \A p \in Req : ~IsNone(img_np[p]) => q <= p
    IN Val(img_np[q])

ProcessSharedFrame(r) ==
    /\ pc[r] = "process"
    /\ Did(r, "process")
    /\ calls' = calls \cup {[rid |-> rid[r], inst |-> Val(face_detection[r]), shape |-> SharedFrame.shape]}
    /\ LET o == FaceDetectionProcess(SharedFrame) IN
        IF o.ok THEN /\ results' = [results EXCEPT ![r] = Some(o.detections)]
                     /\ Goto(r, "branch")
                     /\ UNCHANGED <<exc, live>>
        ELSE Raise(r, o.exc) /\ Release(r) /\ UNCHANGED results
    /\ UNCHANGED <<file, rid, contents, image, img_np, face_detection, resp, nextId,
                   served, log, arrived, env>>

\* line 47; an exception leaves the with block, which closes the instance
Process(r) ==
    /\ pc[r] = "process"
    /\ Did(r, "process")
    /\ calls' = calls \cup {[rid |-> rid[r], inst |-> Val(face_detection[r]), shape |-> Val(img_np[r]).shape]}
    /\ LET o == FaceDetectionProcess(Val(img_np[r])) IN
        IF o.ok THEN /\ results' = [results EXCEPT ![r] = Some(o.detections)]
                     /\ Goto(r, "branch")
                     /\ UNCHANGED <<exc, live>>
        ELSE Raise(r, o.exc) /\ Release(r) /\ UNCHANGED results
    /\ UNCHANGED <<file, rid, contents, image, img_np, face_detection, resp, nextId,
                   served, log, arrived, env>>

\* line 49-50: return from inside the with block closes the instance
ReturnNotFound(r) ==
    /\ pc[r] = "branch"
    /\ Val(results[r]) = <<>>
    /\ Respond(r, NotFoundResponse)
    /\ Release(r)
    /\ UNCHANGED <<file, rid, locals, face_detection, nextId, calls, trace, served, log, arrived, env>>

\* line 54-73
ReturnFound(r) ==
    /\ pc[r] = "branch"
    /\ Val(results[r]) # <<>>
    /\ Respond(r, FoundResponse(Val(results[r])))
    /\ Release(r)
    /\ UNCHANGED <<file, rid, locals, face_detection, nextId, calls, trace, served, log, arrived, env>>

\* variant: the handler logs and re-raises
ExceptReraise(r) ==
    /\ pc[r] = "except"
    /\ log' = Append(log, ErrorLine(Val(exc[r])))
    /\ Respond(r, ServerError)
    /\ UNCHANGED <<file, rid, locals, face_detection, nextId, live, calls, trace, served, arrived, env>>

\* line 75-77
Except(r) ==
    /\ pc[r] = "except"
    /\ log' = Append(log, ErrorLine(Val(exc[r])))
    /\ Respond(r, ErrorResponse(Val(exc[r])))
    /\ UNCHANGED <<file, rid, locals, face_detection, nextId, live, calls, trace, served, arrived, env>>

\* the framework sends the response; the request's objects are dropped
Finish(r) ==
    /\ pc[r] = "done"
    /\ served' = served \cup {[upload |-> file[r], response |-> Val(resp[r])]}
    /\ Goto(r, "idle")
    /\ file' = [file EXCEPT ![r] = NoUpload]
    /\ rid' = [rid EXCEPT ![r] = 0]
    /\ contents' = [contents EXCEPT ![r] = None]
    /\ image' = [image EXCEPT ![r] = None]
    /\ img_np' = [img_np EXCEPT ![r] = None]
    /\ results' = [results EXCEPT ![r] = None]
    /\ exc' = [exc EXCEPT ![r] = None]
    /\ resp' = [resp EXCEPT ![r] = None]
    /\ face_detection' = [face_detection EXCEPT ![r] = None]
    /\ trace' = [trace EXCEPT ![r] = {}]
    /\ UNCHANGED <<nextId, live, calls, log, arrived, env>>

\* POST /detect-face
detect_face(r) ==
    \/ CheckContentType(r)
    \/ ReadContents(r)
    \/ OpenImage(r)
    \/ ConvertMode(r)
    \/ ToArray(r)
    \/ Acquire(r)
    \/ Process(r)
    \/ ReturnNotFound(r)
    \/ ReturnFound(r)
    \/ Except(r)

Next == \E r \in Req : Arrive(r) \/ detect_face(r) \/ Finish(r)

Spec == Init /\ [][Next]_vars

SpecConc == InitConc /\ [][Next]_vars

\* ------------------------------------------------------------------------
\* Properties
\* ------------------------------------------------------------------------
\* a content type is declared and does not begin with "image/"
DeclaredNonImage(u) ==
    /\ ~IsNone(u.content_type)
    /\ LET s == Val(u.content_type)
       IN ~(Len(s) >= Len(ImagePrefix) /\ \A i \in 1..Len(ImagePrefix) : s[i] = ImagePrefix[i])

\* a content type is declared and begins with "image/"
PassesCheck(u) == ~IsNone(u.content_type) /\ ~DeclaredNonImage(u)

InUnit(v) == FloatLe(Zero, v) /\ FloatLe(v, One)

\* lo + ext/2 in float arithmetic
Centre(lo, ext) == FloatAdd(lo, FloatHalf(ext))

\* a < b
FloatLt(a, b) == FloatLe(a, b) /\ a # b

Answered(r) == pc[r] = "done"

\* the found value and the face of a response, when it has them
FoundFace(rsp) ==
    IF "found" \notin DOMAIN rsp.body THEN <<>>
    ELSE IF rsp.body.found THEN <<TRUE, rsp.body.face>>
    ELSE <<FALSE>>

\* every answer produced so far, sent or about to be sent
Answers ==
    served \cup {[upload |-> file[r], response |-> Val(resp[r])] : r \in {q \in Req : Answered(q)}}

InWith(r) == pc[r] \in {"process", "branch"}

\* C1: an upload whose declared content type does not start with "image/"
\* is answered 400 with detail "File must be an image", whatever the body.
C1_NonImageRejected ==
    /\ \A r \in Req :
        (pc[r] \notin {"idle", "check"} /\ DeclaredNonImage(file[r]))
            => /\ Answered(r)
               /\ resp[r] = Some([status |-> 400, body |-> [detail |-> "File must be an image"]])
    /\ \A a \in served :
        DeclaredNonImage(a.upload)
            => a.response = [status |-> 400, body |-> [detail |-> "File must be an image"]]

\* a text/plain upload carrying a perfectly good image with a face: 400
C1_Witness ==
    \E r \in Req :
        /\ Answered(r)
        /\ file[r].content_type = Some(CtText)
        /\ file[r].body.fmt = "ok"
        /\ file[r].body.scene.dets # <<>>
        /\ Val(resp[r]).status = 400

\* C2: once the content-type check has passed, every exception raised while
\* reading, decoding, converting or detecting is answered 200 with
\* {ok: false, error: message}; the request never ends in a 5xx, and a 400
\* comes only from the content-type check.
C2_ExceptionsAnswered200 ==
    \A r \in Req :
        /\ (Answered(r) /\ PassesCheck(file[r])) => Val(resp[r]).status = 200
        /\ (Answered(r) /\ ~IsNone(exc[r]))
              => resp[r] = Some([status |-> 200, body |-> [ok |-> FALSE, error |-> Val(exc[r]).msg]])
        /\ (Answered(r) /\ Val(resp[r]).status = 400) => DeclaredNonImage(file[r])
        /\ (pc[r] = "except") => (PassesCheck(file[r]) /\ ~IsNone(exc[r]))

\* a detector failure inside the with block, answered 200 ok:false
C2_Witness ==
    \E r \in Req :
        /\ Answered(r)
        /\ "process" \in trace[r]
        /\ exc[r] = Some(Exc("RuntimeError", "graph failed"))
        /\ resp[r] = Some([status |-> 200, body |-> [ok |-> FALSE, error |-> "graph failed"]])

\* C3: in a found:true response, face.x, face.y, face.w and face.h each lie
\* in [0, 1], for every bounding box whose xmin, ymin, width and height lie
\* in [0, 1].
C3_FaceInUnitRange ==
    \A r \in Req :
        (/\ Answered(r)
         /\ FoundFace(Val(resp[r])) # <<>>
         /\ Val(resp[r]).body.found
         /\ LET b == Val(results[r])[1]
            IN InUnit(b.xmin) /\ InUnit(b.ymin) /\ InUnit(b.width) /\ InUnit(b.height))
            => LET f == Val(resp[r]).body.face
               IN InUnit(f.x) /\ InUnit(f.y) /\ InUnit(f.w) /\ InUnit(f.h)

\* C4: with one or more detections the answer is {ok: true, found: true,
\* face} with x = xmin + width/2, y = ymin + height/2, w = width, h = height
\* of the first detection; the others play no part.
C4_FirstDetectionCentre ==
    \A r \in Req :
        (Answered(r) /\ ~IsNone(results[r]) /\ Val(results[r]) # <<>>)
            => LET b == Val(results[r])[1]
               IN /\ resp[r] = Some([status |-> 200,
                                  body |-> [ok |-> TRUE, found |-> TRUE,
                                            face |-> [x |-> Centre(b.xmin, b.width),
                                                      y |-> Centre(b.ymin, b.height),
                                                      w |-> b.width,
                                                      h |-> b.height]]])
                  \* 0.2 + 0.1/2 is 0.25 and 0.3 + 0.2/2 is 0.4
                  /\ b = ExampleBox
                        => /\ Val(resp[r]).body.face.x = FromRatio(1, 4)
                           /\ Val(resp[r]).body.face.y = FromRatio(2, 5)
                  \* 0.7 + 0.2/2 is 0.7999999999999999, 0.1 + 0.4/2 is 0.30000000000000004
                  /\ b = RoundingBox
                        => /\ FloatLt(Val(resp[r]).body.face.x, FromRatio(4, 5))
                           /\ FloatLt(FromRatio(3, 10), Val(resp[r]).body.face.y)

\* the box 0.2, 0.3, 0.1, 0.2 first, another box after it: 0.25, 0.4, 0.1, 0.2
C4_Witness ==
    \E r \in Req :
        /\ Answered(r)
        /\ results[r] = Some(<<ExampleBox, FullBox>>)
        /\ Val(resp[r]).body.face =
              [x |-> FromRatio(1, 4), y |-> FromRatio(2, 5), w |-> FromRatio(1, 10), h |-> FromRatio(1, 5)]

\* C5: a valid image on which the detector returns no detection is answered
\* exactly {ok: true, found: false}, with no face and no error field.
C5_NoDetectionsExact ==
    \A r \in Req :
        (Answered(r) /\ results[r] = Some(<<>>))
            => /\ resp[r] = Some([status |-> 200, body |-> [ok |-> TRUE, found |-> FALSE]])
               /\ DOMAIN Val(resp[r]).body = {"ok", "found"}

\* a grayscale image without a face
C5_Witness ==
    \E r \in Req :
        /\ Answered(r)
        /\ file[r].body.fmt = "ok"
        /\ file[r].body.mode = "L"
        /\ results[r] = Some(<<>>)
        /\ Val(resp[r]).body.found = FALSE

\* C6: an upload declared as an image whose bytes do not parse as one is
\* answered 200 with ok: false and a non-empty error string.
C6_UnparseableAnswered ==
    \A r \in Req :
        (Answered(r) /\ PassesCheck(file[r]) /\ file[r].body.fmt \in {"bad", "truncated"})
            => /\ Val(resp[r]).status = 200
               /\ DOMAIN Val(resp[r]).body = {"ok", "error"}
               /\ Val(resp[r]).body.ok = FALSE
               /\ Val(resp[r]).body.error # ""

\* image/png with bytes PIL cannot identify
C6_Witness ==
    \E r \in Req :
        /\ Answered(r)
        /\ file[r].content_type = Some(CtPng)
        /\ file[r].body.fmt = "bad"
        /\ Val(resp[r]).body.error = "cannot identify image file"

\* C7: the same upload sent twice, in any order relative to other requests,
\* gets the same found value and the same face: the answer depends on the
\* request's own upload only.
C7_SameUploadSameAnswer ==
    \A a, b \in Answers :
        a.upload = b.upload => FoundFace(a.response) = FoundFace(b.response)

\* two requests with the same upload answered found:true side by side, after
\* a request with another upload was served
C7_Witness ==
    \E r1, r2 \in Req :
        /\ r1 # r2
        /\ Answered(r1) /\ Answered(r2)
        /\ file[r1] = file[r2]
        /\ FoundFace(Val(resp[r1])) # <<>>
        /\ Val(resp[r1]).body.found
        /\ \E a \in served : a.upload # file[r1]

\* C8: a request whose content type fails the image check never reads the
\* body, decodes an image, or acquires or invokes the detector.
C8_RejectedBeforeProcessing ==
    \A r \in Req :
        (pc[r] # "idle" /\ ~PassesCheck(file[r]))
            => /\ trace[r] = {}
               /\ IsNone(contents[r]) /\ IsNone(image[r]) /\ IsNone(img_np[r])
               /\ IsNone(face_detection[r]) /\ IsNone(results[r])
               /\ \A c \in calls : c.rid # rid[r]
               /\ pc[r] \in {"check", "done"}

\* "image" without the slash is rejected with nothing read
C8_Witness ==
    \E r \in Req :
        /\ Answered(r)
        /\ file[r].content_type = Some(CtNoSlash)
        /\ file[r].body.fmt = "ok"
        /\ Val(resp[r]).status = 400
        /\ trace[r] = {}

\* C9: a request that reaches detection opens its own new detector instance,
\* closed by the time its response exists on every way out; no instance is
\* used by two requests and none outlives its request.
C9_InstancePerRequest ==
    /\ \A r \in Req : InWith(r) => (~IsNone(face_detection[r]) /\ Val(face_detection[r]) \in live)
    /\ \A r1, r2 \in Req :
        (r1 # r2 /\ ~IsNone(face_detection[r1]) /\ ~IsNone(face_detection[r2]))
            => face_detection[r1] # face_detection[r2]
    /\ \A c1, c2 \in calls : c1.inst = c2.inst => c1.rid = c2.rid
    /\ \A r \in Req : InWith(r) => \A c \in calls : c.inst = Val(face_detection[r]) => c.rid = rid[r]
    /\ \A r \in Req :
        (pc[r] \in {"except", "done"} /\ ~IsNone(face_detection[r])) => Val(face_detection[r]) \notin live
    /\ live = {Val(face_detection[r]) : r \in {q \in Req : InWith(q)}}

\* two requests inside their with blocks together, after an earlier request
\* has opened and closed an instance of its own
C9_Witness ==
    \E r1, r2 \in Req :
        /\ pc[r1] = "branch" /\ pc[r2] = "process"
        /\ Cardinality(live) = 2
        /\ nextId = 4
        /\ \E c \in calls : c.inst \notin live

\* C10: whenever the detector is invoked the buffer has exactly 3 channels:
\* an image whose mode is not RGB is converted first, an RGB image is passed
\* as decoded.
C10_ThreeChannels ==
    /\ \A c \in calls : Len(c.shape) = 3 /\ c.shape[3] = 3
    /\ \A r \in Req :
        pc[r] = "process" => (Len(Val(img_np[r]).shape) = 3 /\ Val(img_np[r]).shape[3] = 3)
    /\ \A r \in Req :
        "process" \in trace[r]
            => /\ ("convert" \in trace[r]) <=> (file[r].body.mode # "RGB")
               /\ file[r].body.mode = "RGB" => image[r] = Some(file[r].body)

\* an RGBA image reaches the detector converted
C10_Witness ==
    \E r \in Req :
        /\ "process" \in trace[r]
        /\ file[r].body.mode = "RGBA"
        /\ "convert" \in trace[r]
        /\ \E c \in calls : c.rid = rid[r] /\ c.shape = <<3, 4, 3>>

====
